---- MODULE Spec2Model ----
(***************************************************************************)
(* Model of main.py of house_notificator: one scheduled run loads the      *)
(* known listings from known_listings.json, fetches the monitored page,    *)
(* notifies about every listing id not yet known and saves the known set.  *)
(*                                                                         *)
(* A Python dict is modelled as a sequence of [k, v] entries with unique   *)
(* keys in insertion order, a tuple or list as a sequence, a str made of   *)
(* characters as a sequence of one-character strings.                      *)
(***************************************************************************)
EXTENDS Integers, Sequences, FiniteSets

VARIABLES
    env,               \* environment variables of the process of this run
    pc,                \* position of the process inside main()
    raised,            \* exception that ended the run: "none", "load", "fetch"
    file,              \* content of known_listings.json
    known_listings,    \* main: known_listings
    current_listings,  \* main: current_listings
    new_listings,      \* main: new_listings
    queue,             \* ids the notification loop has still to visit
    sent,              \* calls of send_telegram_message in this run: [id, ok]
    posts,             \* requests.post calls made in this run
    saving,            \* argument of the save_known_listings call in progress
    writes,            \* completed json.dump calls in this run
    file0,             \* history: content of the file when the run started
    loaded,            \* history: what load_known_listings did at the start
    runs,              \* history: number of runs started
    attempts,          \* history: notification attempts per id since the file
                       \* was last damaged by a crash or an outside write
    last_fetched,      \* history: result of the last successful fetch
    chain,             \* history: kind of the previous run if it completed
    same_page,         \* history: this run fetched what the previous one did
    tampered,          \* history: file replaced from outside since last run
    soup,              \* get_all_listings alone: the links of the parsed page
    listing_links,     \* get_all_listings alone: links the loop has still to visit
    extracted          \* get_all_listings alone: listings, the dict the loop builds

vars == <<env, pc, raised, file, known_listings, current_listings, new_listings,
          queue, sent, posts, saving, writes, file0, loaded, runs, attempts,
          last_fetched, chain, same_page, tampered, soup, listing_links,
          extracted>>

\* the variables of get_all_listings run on its own
extract_vars == <<soup, listing_links, extracted>>

\* the variables of a run of main()
run_vars == <<env, pc, raised, file, known_listings, current_listings, new_listings,
              queue, sent, posts, saving, writes, file0, loaded, runs, attempts,
              last_fetched, chain, same_page, tampered>>

(* ---------------------------- bounds ---------------------------------- *)

NumIds == 3
MaxLinks == 2
MaxRuns == 3

\* listing ids the page can show: one-digit and two-digit ones
Ids == 9 .. (8 + NumIds)

(* ------------------------- configuration --------------------------- *)

Settings == {"URL", "TELEGRAM_BOT_TOKEN", "TELEGRAM_CHAT_ID"}

\* os.getenv(key): None when the variable is not set, else its text
NoneValue == "None"

CompleteEnv == [key \in Settings |-> "value"]

\* environments a run can start in: complete, or one setting unset or empty
Envs ==
    {CompleteEnv} \cup
    {[CompleteEnv EXCEPT ![key] = bad] : key \in Settings, bad \in {NoneValue, ""}}

\* stands for the SystemExit that sys.exit(1) raises
SysExit == "sys.exit(1)"

\* mutant: only an unset variable is rejected, an empty one is accepted
get_required_env_UnsetOnly(e, key) ==
    IF e[key] = NoneValue THEN SysExit ELSE e[key]

\* value = os.getenv(key); if not value: sys.exit(1); return value
get_required_env(e, key) ==
    IF e[key] = NoneValue \/ e[key] = "" THEN SysExit ELSE e[key]

\* the three module-level calls of get_required_env, in order
ConfigLoaded(e) ==
    /\ get_required_env(e, "URL") # SysExit
    /\ get_required_env(e, "TELEGRAM_BOT_TOKEN") # SysExit
    /\ get_required_env(e, "TELEGRAM_CHAT_ID") # SysExit

(* ------------------------- Python dict -------------------------------- *)

Range(s) == {s[i] : i \in 1 .. Len(s)}

Keys(d) == {d[i].k : i \in 1 .. Len(d)}

KeyList(d) == [i \in 1 .. Len(d) |-> d[i].k]

Get(d, key) == (CHOOSE e \in Range(d) : e.k = key).v

AsMap(d) == {<<d[i].k, d[i].v>> : i \in 1 .. Len(d)}

\* mutant: an existing key keeps its value
DictSet_FirstWins(d, key, value) ==
    IF key \in Keys(d) THEN d ELSE Append(d, [k |-> key, v |-> value])

\* d[key] = value: an existing key keeps its position, a new key goes last
DictSet(d, key, value) ==
    IF key \in Keys(d)
    THEN [i \in 1 .. Len(d) |-> IF d[i].k = key THEN [k |-> key, v |-> value] ELSE d[i]]
    ELSE Append(d, [k |-> key, v |-> value])

(* ----------------------- str(int) and int(str) ------------------------ *)

DigitChars == <<"0", "1", "2", "3", "4", "5", "6", "7", "8", "9">>

DigitValue(c) == (CHOOSE i \in 1 .. 10 : DigitChars[i] = c) - 1

IsDigit(c) == \E i \in 1 .. 10 : DigitChars[i] = c

RECURSIVE IntToStr(_)
IntToStr(n) ==
    IF n < 10 THEN <<DigitChars[n + 1]>>
    ELSE Append(IntToStr(n \div 10), DigitChars[(n % 10) + 1])

\* int(s) of a str; ValueError stands for the ValueError int() raises
ValueError == -1

RECURSIVE ParseDigits(_, _)
ParseDigits(s, acc) ==
    IF s = <<>> THEN acc
    ELSE ParseDigits(Tail(s), acc * 10 + DigitValue(Head(s)))

StrToInt(s) ==
    IF s = <<>> \/ \E i \in 1 .. Len(s) : ~IsDigit(s[i])
    THEN ValueError
    ELSE ParseDigits(s, 0)

(* ------------------------- get_all_listings --------------------------- *)

SiteOrigin == "https://re.kufar.by"

\* re.compile(r"/dom(?:/dacha)?/\d+") on the href of a link
Matches(href) == href.path \in {"/dom", "/dom/dacha"} /\ StrToInt(href.id) # ValueError

\* href.split("?")[0], made absolute when it does not start with "http"
ListingUrl(href) ==
    IF href.origin # ""
    THEN <<href.origin, href.path, href.id>>
    ELSE <<SiteOrigin, href.path, href.id>>

RECURSIVE ExtractListings(_, _)
ExtractListings(links, listings) ==
    IF links = <<>> THEN listings
    ELSE LET link == Head(links)
         IN  IF Matches(link.href)
             THEN ExtractListings(Tail(links),
                      DictSet(listings, StrToInt(link.href.id),
                              <<link.text, ListingUrl(link.href)>>))
             ELSE ExtractListings(Tail(links), listings)

get_all_listings(page) == ExtractListings(page, <<>>)

\* the links a fetched page is made of
RelativeLink(id) ==
    [text |-> "a",
     href |-> [origin |-> "", path |-> "/dom", id |-> IntToStr(id), query |-> "?r=1"]]

AbsoluteLink(id) ==
    [text |-> "b",
     href |-> [origin |-> SiteOrigin, path |-> "/dom/dacha", id |-> IntToStr(id), query |-> ""]]

Links == {RelativeLink(id) : id \in Ids} \cup {AbsoluteLink(9)}

Pages == UNION {[1 .. n -> Links] : n \in 0 .. MaxLinks}

\* what get_all_listings() can return
FetchResults == {get_all_listings(page) : page \in Pages}

(* ----------------------- known_listings.json -------------------------- *)

Absent == [kind |-> "absent", data |-> <<>>]

\* text json.load cannot parse: empty, cut short or garbage
Unparseable == [kind |-> "text", data |-> <<>>]

JsonArray(items) == [type |-> "array", items |-> items]

JsonNumber == [type |-> "number", items |-> <<>>]

JsonObject(members) == [kind |-> "object", data |-> members]

\* {str(k): list(v) for k, v in listings.items()} written by json.dump
Serialize(listings) ==
    JsonObject([i \in 1 .. Len(listings) |->
                   [key |-> IntToStr(listings[i].k), value |-> JsonArray(listings[i].v)]])

\* {int(k): tuple(v) for k, v in data.items()}
RECURSIVE Comprehend(_, _)
Comprehend(members, acc) ==
    IF members = <<>> THEN [exc |-> "none", value |-> acc]
    ELSE LET m == Head(members)
         IN  IF StrToInt(m.key) = ValueError
             THEN [exc |-> "ValueError", value |-> <<>>]
             ELSE IF m.value.type # "array"
             THEN [exc |-> "TypeError", value |-> <<>>]
             ELSE Comprehend(Tail(members), DictSet(acc, StrToInt(m.key), m.value.items))

\* the except clause of load_known_listings
Caught == {"JSONDecodeError", "ValueError", "KeyError"}

load_known_listings(f) ==
    IF f.kind = "absent" THEN [exc |-> "none", value |-> <<>>]
    ELSE LET r == IF f.kind = "text" THEN [exc |-> "JSONDecodeError", value |-> <<>>]
                  ELSE IF f.kind # "object" THEN [exc |-> "AttributeError", value |-> <<>>]
                  ELSE Comprehend(f.data, <<>>)
         IN  IF r.exc \in Caught THEN [exc |-> "none", value |-> <<>>] ELSE r

\* malformed contents an outside writer can leave in the file
Malformed ==
    { Unparseable,
      [kind |-> "array", data |-> <<>>],
      JsonObject(<<[key |-> <<"x">>, value |-> JsonArray(<<"a", <<SiteOrigin, "/dom", <<"9">>>>>>)]>>),
      JsonObject(<<[key |-> <<"9">>, value |-> JsonNumber]>>) }

(* ------------------------------ main ---------------------------------- *)

\* for listing_id, (title, url) in current_listings.items():
\*     if listing_id not in known_listings: new_listings[listing_id] = (title, url)
RECURSIVE FindNew(_, _, _)
FindNew(current, known, acc) ==
    IF current = <<>> THEN acc
    ELSE LET e == Head(current)
         IN  IF e.k \notin Keys(known)
             THEN FindNew(Tail(current), known, DictSet(acc, e.k, e.v))
             ELSE FindNew(Tail(current), known, acc)

\* mutant: a listing counts as new when its (id, title, url) entry is not known
NewListings_ByEntry(current, known) ==
    SelectSeq(current, LAMBDA e : <<e.k, e.v>> \notin AsMap(known))

NewListings(current, known) == FindNew(current, known, <<>>)

\* sorted(keys, reverse=True)
RECURSIVE InsertDesc(_, _)
InsertDesc(s, x) ==
    IF s = <<>> THEN <<x>>
    ELSE IF x > Head(s) THEN <<x>> \o s
    ELSE <<Head(s)>> \o InsertDesc(Tail(s), x)

RECURSIVE SortDesc(_, _)
SortDesc(keys, acc) ==
    IF keys = <<>> THEN acc ELSE SortDesc(Tail(keys), InsertDesc(acc, Head(keys)))

\* mutant: the loop visits the keys in dict (page) order
sorted_reverse_PageOrder(keys) == keys

sorted_reverse(keys) == SortDesc(keys, <<>>)

\* mutant: the known set is replaced by the new listings
update_Replace(d, other) == other

\* mutant: only the first of the new listings is merged
update_FirstOnly(d, other) ==
    IF other = <<>> THEN d
    ELSE DictSet(d, Head(other).k, Head(other).v)

\* known_listings.update(new_listings)
RECURSIVE update(_, _)
update(d, other) ==
    IF other = <<>> THEN d
    ELSE update(DictSet(d, Head(other).k, Head(other).v), Tail(other))

Stopped == {"idle", "done", "failed", "crashed", "crashed_in_save", "config_exit"}

\* load_known_listings has not been called by this process
NotLoaded == [exc |-> "not called", value |-> <<>>]

InitRun ==
    /\ env = CompleteEnv
    /\ pc = "idle"
    /\ raised = "none"
    /\ file = Absent
    /\ known_listings = <<>>
    /\ current_listings = <<>>
    /\ new_listings = <<>>
    /\ queue = <<>>
    /\ sent = <<>>
    /\ posts = 0
    /\ saving = <<>>
    /\ writes = 0
    /\ file0 = Absent
    /\ loaded = [exc |-> "none", value |-> <<>>]
    /\ runs = 0
    /\ attempts = [id \in Ids |-> 0]
    /\ last_fetched = <<>>
    /\ chain = "none"
    /\ same_page = FALSE
    /\ tampered = FALSE

Init ==
    /\ InitRun
    /\ soup = <<>>
    /\ listing_links = <<>>
    /\ extracted = <<>>

\* a scheduled run starts and a required setting is missing: sys.exit(1)
\* at module level, before main() is called
ConfigExit ==
    /\ pc = "idle"
    /\ runs < MaxRuns
    /\ env' \in Envs
    /\ ~ConfigLoaded(env')
    /\ pc' = "config_exit"
    /\ raised' = "none"
    /\ loaded' = NotLoaded
    /\ known_listings' = <<>>
    /\ current_listings' = <<>>
    /\ new_listings' = <<>>
    /\ queue' = <<>>
    /\ sent' = <<>>
    /\ posts' = 0
    /\ saving' = <<>>
    /\ writes' = 0
    /\ file0' = file
    /\ runs' = runs + 1
    /\ chain' = "none"
    /\ same_page' = FALSE
    /\ UNCHANGED <<extract_vars, file, attempts, last_fetched, tampered>>

\* a scheduled run starts with its settings: main() calls load_known_listings()
Load ==
    /\ pc = "idle"
    /\ runs < MaxRuns
    /\ env' \in Envs
    /\ ConfigLoaded(env')
    /\ LET r == load_known_listings(file)
       IN  /\ loaded' = r
           /\ known_listings' = r.value
           /\ raised' = IF r.exc = "none" THEN "none" ELSE "load"
           /\ pc' = IF r.exc # "none" THEN "failed"
                    ELSE IF r.value = <<>> THEN "baseline" ELSE "compare"
    /\ current_listings' = <<>>
    /\ new_listings' = <<>>
    /\ queue' = <<>>
    /\ sent' = <<>>
    /\ posts' = 0
    /\ saving' = <<>>
    /\ writes' = 0
    /\ file0' = file
    /\ runs' = runs + 1
    /\ chain' = IF tampered THEN "none" ELSE chain
    /\ same_page' = FALSE
    /\ tampered' = FALSE
    /\ UNCHANGED <<extract_vars, file, attempts, last_fetched>>

\* mutant: the first run saves known_listings instead of current_listings
FetchBaseline_SavesKnown ==
    /\ pc = "baseline"
    /\ \E listings \in FetchResults :
          /\ current_listings' = listings
          /\ saving' = known_listings
          /\ last_fetched' = current_listings'
    /\ same_page' = FALSE
    /\ pc' = "save_open"
    /\ UNCHANGED <<extract_vars, env, posts, raised, file, known_listings, new_listings, queue, sent, writes,
                   file0, loaded, runs, attempts, chain, tampered>>

\* first run: get_all_listings() succeeds and save_known_listings is called
FetchBaseline ==
    /\ pc = "baseline"
    /\ \E listings \in FetchResults :
          /\ current_listings' = listings
          /\ saving' = current_listings'
          /\ last_fetched' = current_listings'
    /\ same_page' = FALSE
    /\ pc' = "save_open"
    /\ UNCHANGED <<extract_vars, env, posts, raised, file, known_listings, new_listings, queue, sent, writes,
                   file0, loaded, runs, attempts, chain, tampered>>

\* mutant: the error is swallowed and the run goes on with an empty result
FetchFail_Swallowed ==
    /\ pc \in {"baseline", "compare"}
    /\ raised' = "fetch"
    /\ saving' = current_listings
    /\ pc' = "save_open"
    /\ UNCHANGED <<extract_vars, env, posts, file, known_listings, current_listings, new_listings, queue, sent,
                   writes, file0, loaded, runs, attempts, last_fetched, chain, same_page,
                   tampered>>

\* mutant: the except clause of main() does not re-raise
FetchFail_NotReraised ==
    /\ pc \in {"baseline", "compare"}
    /\ raised' = "fetch"
    /\ pc' = IF pc = "compare" THEN "done" ELSE "failed"
    /\ UNCHANGED <<extract_vars, env, posts, file, known_listings, current_listings, new_listings, queue, sent,
                   saving, writes, file0, loaded, runs, attempts, last_fetched, chain,
                   same_page, tampered>>

\* get_all_listings() raises: requests.get or raise_for_status fails
FetchFail ==
    /\ pc \in {"baseline", "compare"}
    /\ raised' = "fetch"
    /\ pc' = "failed"
    /\ UNCHANGED <<extract_vars, env, posts, file, known_listings, current_listings, new_listings, queue, sent,
                   saving, writes, file0, loaded, runs, attempts, last_fetched, chain,
                   same_page, tampered>>

\* mutant: without new listings the fetched listings are saved
FetchCompare_SavesCurrent ==
    /\ pc = "compare"
    /\ \E listings \in FetchResults :
          /\ current_listings' = listings
          /\ new_listings' = NewListings(current_listings', known_listings)
          /\ last_fetched' = current_listings'
          /\ same_page' = (chain = "compare" /\ AsMap(current_listings') = AsMap(last_fetched))
    /\ IF new_listings' # <<>>
       THEN /\ queue' = sorted_reverse(KeyList(new_listings'))
            /\ pc' = "notify"
            /\ saving' = saving
       ELSE /\ queue' = <<>>
            /\ pc' = "save_open"
            /\ saving' = current_listings'
    /\ UNCHANGED <<extract_vars, env, posts, raised, file, known_listings, sent, writes, file0, loaded, runs, attempts,
                   chain, tampered>>

\* later run: get_all_listings() succeeds and the new listings are found
FetchCompare ==
    /\ pc = "compare"
    /\ \E listings \in FetchResults :
          /\ current_listings' = listings
          /\ new_listings' = NewListings(current_listings', known_listings)
          /\ last_fetched' = current_listings'
          /\ same_page' = (chain = "compare" /\ AsMap(current_listings') = AsMap(last_fetched))
    /\ IF new_listings' # <<>>
       THEN /\ queue' = sorted_reverse(KeyList(new_listings'))
            /\ pc' = "notify"
            /\ saving' = saving
       ELSE /\ queue' = <<>>
            /\ pc' = "save_open"
            /\ saving' = known_listings
    /\ UNCHANGED <<extract_vars, env, posts, raised, file, known_listings, sent, writes, file0, loaded, runs, attempts,
                   chain, tampered>>

\* the settings a Python `if not x` takes as missing
Falsy(value) == value = "" \/ value = NoneValue

\* mutant: a failed request is repeated once
send_telegram_message_Retries(e, delivered) ==
    IF Falsy(e["TELEGRAM_BOT_TOKEN"]) \/ Falsy(e["TELEGRAM_CHAT_ID"])
    THEN [ok |-> FALSE, posts |-> 0]
    ELSE [ok |-> delivered, posts |-> IF delivered THEN 1 ELSE 2]

\* send_telegram_message(text): False without a request when the bot is not
\* configured; else one requests.post, True when it and raise_for_status
\* succeed, False when either raises
send_telegram_message(e, delivered) ==
    IF Falsy(e["TELEGRAM_BOT_TOKEN"]) \/ Falsy(e["TELEGRAM_CHAT_ID"])
    THEN [ok |-> FALSE, posts |-> 0]
    ELSE [ok |-> delivered, posts |-> 1]

\* mutant: a delivery failure is raised instead of returned and ends the run
SendNext_RaisesOnFailure ==
    /\ pc = "notify"
    /\ queue # <<>>
    /\ \E delivered \in BOOLEAN :
          LET r == send_telegram_message(env, delivered)
          IN  /\ sent' = Append(sent, [id |-> Head(queue), ok |-> r.ok])
              /\ posts' = posts + r.posts
              /\ pc' = IF r.ok THEN pc ELSE "failed"
    /\ attempts' = [attempts EXCEPT ![Head(queue)] = @ + 1]
    /\ queue' = Tail(queue)
    /\ UNCHANGED <<extract_vars, env, raised, file, known_listings, current_listings, new_listings,
                   saving, writes, file0, loaded, runs, last_fetched, chain, same_page,
                   tampered>>

\* mutant: the known set is written to the file after every notification
SendNext_SavesEachTime ==
    /\ pc = "notify"
    /\ queue # <<>>
    /\ \E delivered \in BOOLEAN :
          LET r == send_telegram_message(env, delivered)
          IN  /\ sent' = Append(sent, [id |-> Head(queue), ok |-> r.ok])
              /\ posts' = posts + r.posts
    /\ attempts' = [attempts EXCEPT ![Head(queue)] = @ + 1]
    /\ queue' = Tail(queue)
    /\ file' = Serialize(known_listings)
    /\ writes' = writes + 1
    /\ UNCHANGED <<extract_vars, env, pc, raised, known_listings, current_listings, new_listings,
                   saving, file0, loaded, runs, last_fetched, chain, same_page,
                   tampered>>

\* one pass of the notification loop: send_telegram_message returns True or False
SendNext ==
    /\ pc = "notify"
    /\ queue # <<>>
    /\ \E delivered \in BOOLEAN :
          LET r == send_telegram_message(env, delivered)
          IN  /\ sent' = Append(sent, [id |-> Head(queue), ok |-> r.ok])
              /\ posts' = posts + r.posts
    /\ attempts' = [attempts EXCEPT ![Head(queue)] = @ + 1]
    /\ queue' = Tail(queue)
    /\ UNCHANGED <<extract_vars, env, pc, raised, file, known_listings, current_listings, new_listings,
                   saving, writes, file0, loaded, runs, last_fetched, chain, same_page,
                   tampered>>

\* the entries of new_listings whose notification was delivered
Delivered == SelectSeq(new_listings, LAMBDA e : [id |-> e.k, ok |-> TRUE] \in Range(sent))

\* mutant: the new listings are not merged into the known set
Merge_Forgets ==
    /\ pc = "notify"
    /\ queue = <<>>
    /\ known_listings' = known_listings
    /\ saving' = known_listings'
    /\ pc' = "save_open"
    /\ UNCHANGED <<extract_vars, env, posts, raised, file, current_listings, new_listings, queue, sent, writes,
                   file0, loaded, runs, attempts, last_fetched, chain, same_page, tampered>>

\* mutant: only the listings whose notification was delivered become known
Merge_OnlyDelivered ==
    /\ pc = "notify"
    /\ queue = <<>>
    /\ known_listings' = update(known_listings, Delivered)
    /\ saving' = known_listings'
    /\ pc' = "save_open"
    /\ UNCHANGED <<extract_vars, env, posts, raised, file, current_listings, new_listings, queue, sent, writes,
                   file0, loaded, runs, attempts, last_fetched, chain, same_page, tampered>>

\* mutant: every fetched listing is merged, the known ones too
Merge_UpdatesAll ==
    /\ pc = "notify"
    /\ queue = <<>>
    /\ known_listings' = update(known_listings, current_listings)
    /\ saving' = known_listings'
    /\ pc' = "save_open"
    /\ UNCHANGED <<extract_vars, env, posts, raised, file, current_listings, new_listings, queue, sent, writes,
                   file0, loaded, runs, attempts, last_fetched, chain, same_page, tampered>>

\* after the loop: known_listings.update(new_listings); save_known_listings(...)
Merge ==
    /\ pc = "notify"
    /\ queue = <<>>
    /\ known_listings' = update(known_listings, new_listings)
    /\ saving' = known_listings'
    /\ pc' = "save_open"
    /\ UNCHANGED <<extract_vars, env, posts, raised, file, current_listings, new_listings, queue, sent, writes,
                   file0, loaded, runs, attempts, last_fetched, chain, same_page, tampered>>

\* save_known_listings: open(KNOWN_LISTINGS_FILE, "w") truncates the file
SaveOpen ==
    /\ pc = "save_open"
    /\ file' = Unparseable
    /\ pc' = "save_write"
    /\ UNCHANGED <<extract_vars, env, posts, raised, known_listings, current_listings, new_listings, queue, sent,
                   saving, writes, file0, loaded, runs, attempts, last_fetched, chain,
                   same_page, tampered>>

\* save_known_listings: json.dump and close; main() returns
SaveWrite ==
    /\ pc = "save_write"
    /\ file' = Serialize(saving)
    /\ writes' = writes + 1
    /\ pc' = "done"
    /\ UNCHANGED <<extract_vars, env, posts, raised, known_listings, current_listings, new_listings, queue, sent,
                   saving, file0, loaded, runs, attempts, last_fetched, chain, same_page,
                   tampered>>

\* the process is killed in the middle of a run
Crash ==
    /\ pc \notin Stopped
    /\ pc' = IF pc \in {"save_open", "save_write"} THEN "crashed_in_save" ELSE "crashed"
    /\ attempts' = [id \in Ids |-> 0]
    /\ UNCHANGED <<extract_vars, env, posts, raised, file, known_listings, current_listings, new_listings, queue,
                   sent, saving, writes, file0, loaded, runs, last_fetched, chain, same_page,
                   tampered>>

\* the process is gone, whether it exited or was killed: its memory is lost
ProcessEnd ==
    /\ pc \in Stopped \ {"idle"}
    /\ pc' = "idle"
    /\ env' = CompleteEnv
    /\ raised' = "none"
    /\ loaded' = NotLoaded
    /\ known_listings' = <<>>
    /\ current_listings' = <<>>
    /\ new_listings' = <<>>
    /\ queue' = <<>>
    /\ sent' = <<>>
    /\ posts' = 0
    /\ saving' = <<>>
    /\ writes' = 0
    /\ file0' = file
    /\ chain' = IF pc = "done"
                THEN (IF known_listings = <<>> THEN "baseline" ELSE "compare")
                ELSE "none"
    /\ same_page' = FALSE
    /\ UNCHANGED <<extract_vars, file, runs, attempts, last_fetched, tampered>>

\* between two runs something else replaces the file by malformed content
Corrupt ==
    /\ pc = "idle"
    /\ runs < MaxRuns
    /\ ~tampered
    /\ file' \in Malformed
    /\ tampered' = TRUE
    /\ attempts' = [id \in Ids |-> 0]
    /\ UNCHANGED <<extract_vars, env, posts, pc, raised, known_listings, current_listings, new_listings, queue,
                   sent, saving, writes, file0, loaded, runs, last_fetched, chain, same_page>>

Next ==
    \/ ConfigExit
    \/ Load
    \/ FetchBaseline
    \/ FetchFail
    \/ FetchCompare
    \/ SendNext
    \/ Merge
    \/ SaveOpen
    \/ SaveWrite
    \/ Crash
    \/ ProcessEnd
    \/ Corrupt

Spec == Init /\ [][Next]_vars

(* --------------------- get_all_listings on its own -------------------- *)

\* a link of the page that the pattern does not match
OtherLink ==
    [text |-> "c",
     href |-> [origin |-> "", path |-> "/kvartiry", id |-> IntToStr(9), query |-> ""]]

\* a link whose id is written with a leading zero
PaddedLink ==
    [text |-> "d",
     href |-> [origin |-> "", path |-> "/dom", id |-> <<"0">> \o IntToStr(9), query |-> ""]]

ExtractLinks ==
    {RelativeLink(id) : id \in Ids} \cup {AbsoluteLink(id) : id \in Ids}
        \cup {OtherLink, PaddedLink}

ExtractPages == UNION {[1 .. n -> ExtractLinks] : n \in 0 .. (MaxLinks + 1)}

\* soup.find_all("a", href=re.compile(...)): the matching links in page order
find_all(links) == SelectSeq(links, LAMBDA link : Matches(link.href))

\* the page is parsed and listings = {} is created
InitExtract ==
    /\ InitRun
    /\ soup \in ExtractPages
    /\ listing_links = find_all(soup)
    /\ extracted = <<>>

\* one pass of the loop over listing_links
ExtractStep ==
    /\ listing_links # <<>>
    /\ extracted' = ExtractListings(<<Head(listing_links)>>, extracted)
    /\ listing_links' = Tail(listing_links)
    /\ UNCHANGED <<soup, run_vars>>

NextExtract == ExtractStep

SpecExtract == InitExtract /\ [][NextExtract]_vars

(* ------------------------- properties --------------------------------- *)

\* the dict load_known_listings returned at the start of the run
Known0 == loaded.value

SentIds == {sent[i].id : i \in 1 .. Len(sent)}

\* the fetch of the run succeeded and the notification loop is over
AfterNotify == pc \in {"save_open", "save_write", "done"}

\* C1: in a comparison run (known set A non-empty) whose fetch returned B, no
\* id of A is ever passed to send_telegram_message, and once the loop is over
\* the ids passed to it are exactly ids(B) minus ids(A), whatever the titles
\* and urls are.
C1_ReportedIsDifference ==
    Known0 # <<>> =>
        /\ SentIds \cap Keys(Known0) = {}
        /\ AfterNotify => SentIds = Keys(current_listings) \ Keys(Known0)

\* a finished comparison run that notified, with a known id whose title or
\* url differs on the page
C1_Witness ==
    /\ pc = "done"
    /\ Known0 # <<>>
    /\ SentIds # {}
    /\ \E id \in Keys(Known0) \cap Keys(current_listings) :
           Get(Known0, id) # Get(current_listings, id)

\* what load_known_listings would return for the file as it is now
Persisted == load_known_listings(file).value

\* the run returned from main() and nothing has touched the file since
Finished == pc = "done" /\ ~tampered

\* load_known_listings returned an empty dict at the start of the run
LoadedEmpty == loaded = [exc |-> "none", value |-> <<>>]

\* C2: when the file is absent or loads as an empty dict, a run whose fetch
\* succeeds never calls send_telegram_message and leaves a file that loads
\* as exactly the fetched listings.
C2_Baseline ==
    LoadedEmpty =>
        /\ sent = <<>>
        /\ Finished => load_known_listings(file) = [exc |-> "none", value |-> current_listings]

\* a finished first run (no file yet) that fetched two listings
C2_Witness ==
    /\ Finished
    /\ file0 = Absent
    /\ Len(current_listings) >= 2
    /\ sent = <<>>

\* C3: after every run that completes, every entry that was persisted before
\* the run is still persisted, also when it is no longer on the page.
C3_Monotonic ==
    Finished => AsMap(Known0) \subseteq AsMap(Persisted)

\* a finished comparison run whose page lacks a known id and shows a new one
C3_Witness ==
    /\ Finished
    /\ Keys(Known0) \ Keys(current_listings) # {}
    /\ new_listings # <<>>

\* C4: when get_all_listings raises, the file is as it was when the run
\* started, nothing has been written or sent, and the run has failed.
C4_FetchFailure ==
    (raised = "fetch" /\ ~tampered) =>
        /\ file = file0
        /\ writes = 0
        /\ sent = <<>>
        /\ pc = "failed"

\* a comparison run that failed in the fetch
C4_Witness ==
    /\ raised = "fetch"
    /\ pc = "failed"
    /\ Known0 # <<>>

\* C5: whatever malformed content the file holds when a run starts,
\* load_known_listings returns an empty dict without raising, and the run is
\* a baseline run: nothing is sent and the file ends up as the fetched set.
C5_MalformedIsBaseline ==
    file0 \in Malformed =>
        /\ raised # "load"
        /\ sent = <<>>
        /\ Finished => Persisted = current_listings

\* C6: when the process is killed inside save_known_listings, the file holds
\* the complete old content or the complete new content.
C6_CrashKeepsOldOrNew ==
    (pc = "crashed_in_save" /\ ~tampered) => file \in {file0, Serialize(saving)}

\* C7: a send_telegram_message that returns False neither fails the run nor
\* stops the loop: when the comparison run is over every new id has been
\* attempted and every new id is persisted.
C7_FaultIsolation ==
    /\ (\E i \in 1 .. Len(sent) : ~sent[i].ok) => raised = "none" /\ pc # "failed"
    /\ (queue = <<>> /\ pc \in {"notify", "save_open", "save_write", "done"})
          => Keys(new_listings) \subseteq SentIds
    /\ Finished => Keys(new_listings) \subseteq Keys(Persisted)

\* a finished run whose first notification failed and was followed by another
C7_Witness ==
    /\ Finished
    /\ Len(sent) >= 2
    /\ ~sent[1].ok
    /\ sent[1].id \in Keys(Persisted)

\* C8: the ids passed to send_telegram_message in one run are strictly
\* descending, whatever the order of the links on the page.
C8_Descending ==
    \A i, j \in 1 .. Len(sent) : i < j => sent[i].id > sent[j].id

\* a finished run with two notifications whose ids are ascending on the page
C8_Witness ==
    /\ pc = "done"
    /\ Len(sent) >= 2
    /\ new_listings[1].k < new_listings[2].k

\* C9: when a comparison run completed and the next run fetches the same
\* listings, that run sends nothing and leaves the persisted listings as
\* they were.
C9_Idempotent ==
    (Finished /\ same_page) => sent = <<>> /\ Persisted = Known0

\* a finished second comparison run on an unchanged, non-empty page
C9_Witness ==
    /\ Finished
    /\ same_page
    /\ Len(current_listings) >= 2
    /\ sent = <<>>

\* C10: as long as no run crashes and nothing damages the file, no id is
\* passed to send_telegram_message more than once over all runs, whether
\* the call returned True or False.
C10_AtMostOnce ==
    \A id \in Ids : attempts[id] <= 1

\* a finished third run whose page shows an id notified in an earlier run
C10_Witness ==
    /\ Finished
    /\ runs >= 3
    /\ \E id \in Keys(current_listings) : attempts[id] = 1 /\ id \notin SentIds

\* exit code of the process: 0 when main() returns, 1 when an exception
\* leaves main() or sys.exit(1) is called; NotExited while it runs or after
\* it was killed
NotExited == -1

ExitCode ==
    IF pc = "done" THEN 0
    ELSE IF pc \in {"failed", "config_exit"} THEN 1
    ELSE NotExited

\* C11: a run whose fetch raised exits with a nonzero code, in the baseline
\* path and in the comparison path; a run that got its settings exits
\* nonzero only because the load or the fetch raised, so a run whose fetch
\* succeeded exits with 0, whatever was found and whatever the sends returned.
C11_ExitCodes ==
    /\ raised = "fetch" => ExitCode = 1
    /\ (ExitCode = 1 /\ pc # "config_exit")
          => raised \in {"load", "fetch"} /\ sent = <<>> /\ writes = 0
    /\ ExitCode = 0 => raised = "none" /\ writes = 1

\* a baseline run that exited with 1 because the fetch raised
C11_Witness ==
    /\ ExitCode = 1
    /\ raised = "fetch"
    /\ LoadedEmpty
    /\ runs >= 1

\* some required setting is unset or empty in the environment of the run
Incomplete == \E key \in Settings : env[key] \in {NoneValue, ""}

\* C12: when one of URL, TELEGRAM_BOT_TOKEN and TELEGRAM_CHAT_ID is unset or
\* empty, the process exits with code 1 and has not called
\* load_known_listings, fetched, sent or written anything.
C12_ConfigExit ==
    Incomplete =>
        /\ pc = "config_exit"
        /\ ExitCode = 1
        /\ loaded = NotLoaded
        /\ current_listings = <<>>
        /\ raised = "none"
        /\ sent = <<>>
        /\ writes = 0
        /\ ~tampered => file = file0

\* a run with an empty bot token that exited while a written file exists
C12_Witness ==
    /\ pc = "config_exit"
    /\ env["TELEGRAM_BOT_TOKEN"] = ""
    /\ env["URL"] = "value"
    /\ file.kind = "object"
    /\ file = file0

\* C13: when the previous run completed its write and nobody touched the file
\* since, the run is a comparison run: it does not take the baseline branch,
\* and once its loop is over it has called send_telegram_message for every
\* fetched id that the file did not hold.
C13_BaselineOnlyFirst ==
    chain # "none" =>
        /\ pc # "baseline"
        /\ AfterNotify => SentIds = Keys(current_listings) \ Keys(Known0)

\* C14: a run loads, then fetches, then finds the new listings, then sends,
\* then writes: nothing is fetched or sent before the load, nothing is sent
\* before the fetch and the diff, the file is untouched until the loop is
\* over, and it is written at most once, after a fetch that did not raise and
\* after the last call of send_telegram_message.
C14_StepOrder ==
    /\ writes <= 1
    /\ pc \in {"baseline", "compare"} =>
          /\ loaded # NotLoaded
          /\ current_listings = <<>>
          /\ new_listings = <<>>
          /\ sent = <<>>
    /\ SentIds \subseteq Keys(new_listings)
    /\ pc \in {"baseline", "compare", "notify", "failed", "crashed"} =>
          /\ writes = 0
          /\ file = file0
    /\ (writes = 1 \/ pc \in {"save_open", "save_write", "crashed_in_save"}) =>
          /\ raised = "none"
          /\ queue = <<>>
          /\ Len(sent) = Len(new_listings)

\* a run that sent two notifications, the first one undelivered, and then
\* wrote the file once
C14_Witness ==
    /\ pc = "done"
    /\ writes = 1
    /\ Len(sent) = 2
    /\ ~sent[1].ok
    /\ file # file0

\* C15: a comparison run whose fetch succeeded and showed no new id still
\* writes the file, once, and the file then holds what was loaded at the
\* start of the run: the same ids with the same (title, url) each, whatever
\* the page showed.
C15_NoNewRewrites ==
    (Finished /\ Known0 # <<>> /\ new_listings = <<>>) =>
        /\ writes = 1
        /\ sent = <<>>
        /\ file = Serialize(Known0)
        /\ Persisted = Known0

\* a comparison run without new ids whose page lacked a known listing
C15_Witness ==
    /\ Finished
    /\ new_listings = <<>>
    /\ writes = 1
    /\ Len(Known0) = 2
    /\ Keys(current_listings) # Keys(Known0)
    /\ Persisted = Known0

\* C16: send_telegram_message is called once per new id and never twice for
\* the same id in a run, every call makes one requests.post and no second
\* one after a failure, so when the loop of a comparison run is over the
\* number of calls and the number of requests both equal the number of new
\* ids.
C16_OnePerNew ==
    /\ posts = Len(sent)
    /\ Cardinality(SentIds) = Len(sent)
    /\ (AfterNotify /\ Known0 # <<>>) =>
          /\ SentIds = Keys(new_listings)
          /\ Len(sent) = Len(new_listings)
          /\ posts = Len(new_listings)

\* a comparison run over: two new ids, two requests, both failed
C16_Witness ==
    /\ pc = "done"
    /\ Known0 # <<>>
    /\ Len(new_listings) = 2
    /\ posts = 2
    /\ \A i \in 1 .. Len(sent) : ~sent[i].ok

\* C17: after a comparison run that completed, every id that was known at
\* the start has in the file the (title, url) it had at the start, also when
\* the page showed another title or url for it, and every new id has the
\* (title, url) the page showed.
C17_PresenceOnly ==
    (Finished /\ Known0 # <<>>) =>
        /\ \A id \in Keys(Known0) : Get(Persisted, id) = Get(Known0, id)
        /\ \A id \in Keys(new_listings) :
               Get(Persisted, id) = Get(current_listings, id)

\* a run that found a new id while a known id showed up with another url
C17_Witness ==
    /\ Finished
    /\ new_listings # <<>>
    /\ \E id \in Keys(Known0) \cap Keys(current_listings) :
           /\ Get(Persisted, id) = Get(Known0, id)
           /\ Get(Persisted, id) # Get(current_listings, id)

\* C18: after a comparison run that completed, the ids in the file are the
\* ids known at the start of the run together with the ids the run fetched;
\* and after any run that completed, every id it fetched is in the file.
C18_UnionPersisted ==
    /\ (Finished /\ Known0 # <<>>) =>
           Keys(Persisted) = Keys(Known0) \cup Keys(current_listings)
    /\ Finished => Keys(current_listings) \subseteq Keys(Persisted)

\* a comparison run that added two ids to a file whose ids the page partly
\* no longer showed
C18_Witness ==
    /\ Finished
    /\ Known0 # <<>>
    /\ Len(new_listings) = 2
    /\ Cardinality(Keys(Persisted)) = Len(Known0) + 2
    /\ Keys(Known0) \ Keys(current_listings) # {}

\* the id and the (title, url) a matching link stands for
LinkId(link) == StrToInt(link.href.id)

LinkValue(link) == <<link.text, ListingUrl(link.href)>>

\* C19: when the loop of get_all_listings is over, the result holds exactly
\* the ids of the matching links of the page, each once, each with the
\* (title, url) of the last matching link in page order that has this id,
\* and it is the one result the page determines.
C19_LastSeenWins ==
    listing_links = <<>> =>
        LET m == find_all(soup)
        IN  /\ Keys(extracted) = {LinkId(m[i]) : i \in 1 .. Len(m)}
            /\ Cardinality(Keys(extracted)) = Len(extracted)
            /\ \A i \in 1 .. Len(m) :
                   (\A j \in (i + 1) .. Len(m) : LinkId(m[j]) # LinkId(m[i])) =>
                       Get(extracted, LinkId(m[i])) = LinkValue(m[i])
            /\ extracted = get_all_listings(soup)

\* a page of three links, two of them with the same id and different
\* (title, url) and a link in between, whose loop is over
C19_Witness ==
    /\ listing_links = <<>>
    /\ Len(soup) = 3
    /\ Len(find_all(soup)) = 3
    /\ LinkId(soup[1]) = LinkId(soup[3])
    /\ LinkId(soup[2]) # LinkId(soup[1])
    /\ LinkValue(soup[1]) # LinkValue(soup[3])
    /\ Get(extracted, LinkId(soup[1])) = LinkValue(soup[3])

====
